---- MODULE Spec2Model ----
(***************************************************************************)
(* A model of cruzdb/intersecter.py: the Feature record, the distance      *)
(* function, the two binary searches and the Intersecter index with its    *)
(* queries find, left, right, upstream, downstream and knearest.           *)
(*                                                                         *)
(* Python lists are 0-based; TLA+ sequences are 1-based.  Every index      *)
(* variable below (lo, hi, mid, ileft, iright, i) keeps the value it has   *)
(* in the Python code, and a list access lst[i] is written lst[i + 1].     *)
(***************************************************************************)
EXTENDS Integers, Sequences, FiniteSets, TLC

\* Bounds of the model.  Stored features have coordinates in 0..MaxCoord
\* and an input collection holds at most MaxFeat of them; the features a
\* neighbour query is made for have coordinates in 0..MaxQuery, and the
\* query asks for 1..MaxN neighbours.  The indexes of a single partition
\* (no feature has a chrom) are built from at most MaxDefaultFeat features.
MaxCoord == 3
MaxQuery == 4
MaxFeat == 2
MaxDefaultFeat == 4
MaxN == 2

\* Python's None as a partition key, and the partition keys of the model.
NoneKey == "None"
Chroms == {NoneKey, "a"}
Strands == {-1, 0, 1}

\* Feature.__init__: the fields the queries read (name and info are payload).
Feature(start, end, strand, chrom) ==
    [start |-> start, end |-> end, strand |-> strand, chrom |-> chrom]

\* The ranges with coordinates in 0..m: Feature asserts start <= end.
Ranges(m) == {se \in (0..m) \X (0..m) : se[1] <= se[2]}

\* The features of an input collection, with partition keys in chroms.
StoredFeatures(chroms) ==
    {Feature(se[1], se[2], 0, c) : se \in Ranges(MaxCoord), c \in chroms}

\* The input collections: every list of at most k features.
Inputs(k, chroms) == UNION {[1..j -> StoredFeatures(chroms)] : j \in 0..k}

\* A variant of distance whose second branch subtracts the wrong way round.
distance_swapped(f1, f2) ==
    IF f1.end < f2.start THEN f2.start - f1.end
    ELSE IF f2.end < f1.start THEN f2.end - f1.start
    ELSE 0

\* distance(f1, f2)
distance(f1, f2) ==
    IF f1.end < f2.start THEN f2.start - f1.end
    ELSE IF f2.end < f1.start THEN f1.start - f2.end
    ELSE 0

\* binsearch_left_start(intervals, x, lo, hi)
RECURSIVE binsearch_left_start(_, _, _, _)
binsearch_left_start(intervals, x, lo, hi) ==
    IF lo < hi
    THEN LET mid == (lo + hi) \div 2
             f == intervals[mid + 1]
         IN IF f.start < x
            THEN binsearch_left_start(intervals, x, mid + 1, hi)
            ELSE binsearch_left_start(intervals, x, lo, mid)
    ELSE lo

\* binsearch_right_end(intervals, x, lo, hi)
RECURSIVE binsearch_right_end(_, _, _, _)
binsearch_right_end(intervals, x, lo, hi) ==
    IF lo < hi
    THEN LET mid == (lo + hi) \div 2
             f == intervals[mid + 1]
         IN IF x < f.start
            THEN binsearch_right_end(intervals, x, lo, mid)
            ELSE binsearch_right_end(intervals, x, mid + 1, hi)
    ELSE lo

\* ---- Python list semantics ------------------------------------------

Min(a, b) == IF a < b THEN a ELSE b
Max(a, b) == IF a < b THEN b ELSE a

\* lst[lo:hi] for lo >= 0: the slice is cut at the end of the list.
PySlice(lst, lo, hi) == SubSeq(lst, lo + 1, Min(hi, Len(lst)))

\* lst[:i]: a negative i counts from the end of the list.
PyPrefix(lst, i) ==
    IF i >= 0 THEN PySlice(lst, 0, i) ELSE PySlice(lst, 0, Max(Len(lst) + i, 0))

\* lst[i] raises IndexError unless -len(lst) <= i < len(lst).
PyInRange(lst, i) == -Len(lst) <= i /\ i < Len(lst)

\* lst[i]: a negative i counts from the end of the list.
PyAt(lst, i) == IF i >= 0 THEN lst[i + 1] ELSE lst[Len(lst) + i + 1]

\* list.sort / sorted with integer keys: a stable sort.  keys[j] is the
\* key of lst[j]; element j goes to the place given by the number of
\* elements with a smaller key, or an equal key and an earlier position.
SortRank(keys, j) ==
    1 + Cardinality({k \in 1..Len(keys) :
                        keys[k] < keys[j] \/ (keys[k] = keys[j] /\ k < j)})

StableSort(lst, keys) ==
    [i \in 1..Len(lst) |-> lst[CHOOSE j \in 1..Len(lst) : SortRank(keys, j) = i]]

\* ---- Intersecter -----------------------------------------------------

\* max([...]) over a non-empty list of integers.
MaxOf(lens) == CHOOSE m \in {lens[i] : i \in 1..Len(lens)} :
                   \A i \in 1..Len(lens) : lens[i] <= m

\* Intersecter.__init__(intervals): the index it builds, or the exception
\* it raises.  max() of an empty list raises ValueError; by then the
\* defaultdict is empty and max_len is 1.
Construct(input) ==
    LET keys == {input[i].chrom : i \in 1..Len(input)}
        grouped == [c \in keys |-> SelectSeq(input, LAMBDA iv : iv.chrom = c)]
        sorted == [c \in keys |->
                     StableSort(grouped[c],
                                [i \in 1..Len(grouped[c]) |-> grouped[c][i].start])]
        m == MaxOf([i \in 1..Len(input) |-> input[i].end - input[i].start])
    IN IF Len(input) = 0
       THEN [intervals |-> << >>, max_len |-> 1, err |-> "ValueError"]
       ELSE [intervals |-> sorted,
             max_len |-> IF m < 1 THEN 1 ELSE m,
             err |-> "none"]

\* self.intervals[chrom] on the defaultdict(list): the value read.  A
\* missing key reads as the empty list (and is inserted, see Touch).
Lookup(ivmap, chrom) == IF chrom \in DOMAIN ivmap THEN ivmap[chrom] ELSE << >>

\* The defaultdict after self.intervals[chrom] was read for every chrom of
\* keys: each missing key is inserted with an empty list.
Touch(ivmap, keys) ==
    [c \in (DOMAIN ivmap) \cup keys |-> Lookup(ivmap, c)]

\* What a query gives back: the list returned or the exception raised, the
\* partition keys it read, and the recursive calls it made.
Return(res, touched, calls) ==
    [res |-> res, err |-> "none", touched |-> touched, calls |-> calls]
Raise(exc, touched, calls) ==
    [res |-> << >>, err |-> exc, touched |-> touched, calls |-> calls]

\* A variant of find that searches the left bound from start, not from
\* start - max_len.
find_without_max_len(ivmap, max_len, start, end, chrom) ==
    LET intervals == Lookup(ivmap, chrom)
        ilen == Len(intervals)
        ileft == binsearch_left_start(intervals, start, 0, ilen)
        iright == binsearch_right_end(intervals, end, ileft, ilen)
        query == Feature(start, end, 0, NoneKey)
    IN IF start > end
       THEN Raise("AssertionError", {chrom}, 0)
       ELSE Return(SelectSeq(PySlice(intervals, ileft, iright),
                             LAMBDA f : distance(f, query) = 0),
                   {chrom}, 0)

\* Intersecter.find(start, end, chrom)
find(ivmap, max_len, start, end, chrom) ==
    LET intervals == Lookup(ivmap, chrom)
        ilen == Len(intervals)
        ileft == binsearch_left_start(intervals, start - max_len, 0, ilen)
        iright == binsearch_right_end(intervals, end, ileft, ilen)
        query == Feature(start, end, 0, NoneKey)
    IN IF start > end
       THEN Raise("AssertionError", {chrom}, 0)
       ELSE Return(SelectSeq(PySlice(intervals, ileft, iright),
                             LAMBDA f : distance(f, query) = 0),
                   {chrom}, 0)

\* The loop of left, from index i on:
\*   for i in range(n, len(results)):
\*       if distance(f, results[i - 1]) != distance(f, results[i]):
\*           return results[:i]
\* It returns at i, raises IndexError at i, or falls through.
RECURSIVE GapScan(_, _, _)
GapScan(f, results, i) ==
    IF i >= Len(results) THEN [kind |-> "fall", i |-> i]
    ELSE IF ~PyInRange(results, i - 1) \/ ~PyInRange(results, i)
         THEN [kind |-> "raise", i |-> i]
    ELSE IF distance(f, PyAt(results, i - 1)) # distance(f, PyAt(results, i))
         THEN [kind |-> "return", i |-> i]
    ELSE GapScan(f, results, i + 1)

\* The feature the recursive call of left is made for: it keeps f.end and
\* takes the defaults strand=0, chrom=None.
LeftNext(f, results) ==
    IF Len(results) # 0
    THEN Feature(PyAt(results, -1).start, f.end, 0, NoneKey)
    ELSE Feature(f.start - 1, f.end, 0, NoneKey)

\* Intersecter.left(f, n)
RECURSIVE left(_, _, _, _)
left(ivmap, max_len, f, n) ==
    LET intervals == Lookup(ivmap, f.chrom)
        iright == binsearch_left_start(intervals, f.start, 0, Len(intervals)) + 1
        ileft == binsearch_left_start(intervals, f.start - max_len - 1, 0, iright - 1)
        cand == SelectSeq(PySlice(intervals, ileft, iright),
                          LAMBDA other : other.end < f.start /\ distance(f, other) # 0)
        results == StableSort(cand, [i \in 1..Len(cand) |-> distance(cand[i], f)])
        scan == GapScan(f, results, n)
        g == LeftNext(f, results)
        rec == left(ivmap, max_len, g, n - Len(results))
    IN IF Len(results) = n THEN Return(results, {f.chrom}, 0)
       ELSE IF scan.kind = "raise" THEN Raise("IndexError", {f.chrom}, 0)
       ELSE IF scan.kind = "return"
            THEN Return(PyPrefix(results, scan.i), {f.chrom}, 0)
       ELSE IF ileft = 0 THEN Return(results, {f.chrom}, 0)
       ELSE IF g.start > g.end THEN Raise("AssertionError", {f.chrom}, 0)
       ELSE IF rec.err # "none"
            THEN Raise(rec.err, {f.chrom} \cup rec.touched, 1 + rec.calls)
       ELSE Return(results \o rec.res, {f.chrom} \cup rec.touched, 1 + rec.calls)

\* The while loop of right, from the state (iright, results) on.
RECURSIVE rightLoop(_, _, _, _, _)
rightLoop(intervals, f, n, iright, results) ==
    IF iright < Len(intervals)
    THEN LET i == Len(results)
             other == intervals[iright + 1]
         IN IF i > n /\ distance(f, PyAt(results, i - 1)) # distance(f, PyAt(results, i - 2))
            THEN PyPrefix(results, i - 1)
            ELSE IF distance(other, f) = 0
                 THEN rightLoop(intervals, f, n, iright + 1, results)
                 ELSE rightLoop(intervals, f, n, iright + 1, Append(results, other))
    ELSE results

\* Intersecter.right(f, n)
right(ivmap, f, n) ==
    LET intervals == Lookup(ivmap, f.chrom)
        ilen == Len(intervals)
        iright == binsearch_right_end(intervals, f.end, 0, ilen)
    IN Return(rightLoop(intervals, f, n, iright, << >>), {f.chrom}, 0)

\* Intersecter.upstream(f, n)
upstream(ivmap, max_len, f, n) ==
    IF f.strand = -1 THEN right(ivmap, f, n) ELSE left(ivmap, max_len, f, n)

\* Intersecter.downstream(f, n)
downstream(ivmap, max_len, f, n) ==
    IF f.strand = -1 THEN left(ivmap, max_len, f, n) ELSE right(ivmap, f, n)

\* Intersecter.knearest(f, k=k): the partition is read and the window is
\* searched, then the statement 1/0 raises ZeroDivisionError; the loop
\* after it is never run.
knearest(ivmap, max_len, f, k) ==
    LET intervals == Lookup(ivmap, f.chrom)
        ilen == Len(intervals)
        ileft == binsearch_left_start(intervals, f.start - max_len, 0, ilen)
        iright == binsearch_right_end(intervals, f.end, ileft, ilen)
    IN Raise("ZeroDivisionError", {f.chrom}, 0)

\* ---- The state machine -----------------------------------------------

VARIABLES
    intervals,  \* self.intervals: partition key -> list of features
    max_len,    \* self.max_len
    built,      \* TRUE when Intersecter.__init__ returned an object
    call,       \* the last call: its name and arguments
    result,     \* the list the last call returned (<< >> when it raised)
    err,        \* the exception the last call raised, or "none"
    nrec,       \* the recursive calls the last call of left made
    dist        \* the value the last call of distance returned

vars == <<intervals, max_len, built, call, result, err, nrec, dist>>

NoFeature == Feature(0, 0, 0, NoneKey)

Call(op, f, g, n) == [op |-> op, f |-> f, g |-> g, n |-> n]

\* The features a caller queries with: coordinates in 0..m, strands drawn
\* from strands.
QueryFeatures(m, strands) ==
    {Feature(se[1], se[2], st, c) : se \in Ranges(m), st \in strands, c \in Chroms}

\* The state after Intersecter(input), for every input collection of at
\* most k features with partition keys in chroms.
Built(k, chroms) ==
    \E input \in Inputs(k, chroms) :
        LET c == Construct(input)
        IN /\ intervals = c.intervals
           /\ max_len = c.max_len
           /\ built = (c.err = "none")
           /\ err = c.err
           /\ call = Call("__init__", NoFeature, NoFeature, Len(input))
           /\ result = << >>
           /\ nrec = 0
           /\ dist = 0

Init == Built(MaxFeat, Chroms)

\* A query op(f, n) that gave back r: the defaultdict keeps the keys read.
Query(op, f, n, r) ==
    /\ built
    /\ intervals' = Touch(intervals, r.touched)
    /\ call' = Call(op, f, NoFeature, n)
    /\ result' = r.res
    /\ err' = r.err
    /\ nrec' = r.calls
    /\ UNCHANGED <<max_len, built, dist>>

\* intersecter.find(start, end, chrom), with start <= end, for the ranges
\* within the coordinates of the stored features
Find ==
    \E f \in QueryFeatures(MaxCoord, {0}) :
        Query("find", f, 0, find(intervals, max_len, f.start, f.end, f.chrom))

\* intersecter.left(f, n)
Left ==
    \E f \in QueryFeatures(MaxQuery, {0}), n \in 1..MaxN :
        Query("left", f, n, left(intervals, max_len, f, n))

\* intersecter.left(Feature(start, end), n): f has no chrom
LeftDefault ==
    \E f \in QueryFeatures(MaxQuery, {0}), n \in 1..MaxN :
        /\ f.chrom = NoneKey
        /\ Query("left", f, n, left(intervals, max_len, f, n))

\* intersecter.right(f, n)
Right ==
    \E f \in QueryFeatures(MaxQuery, {0}), n \in 1..MaxN :
        Query("right", f, n, right(intervals, f, n))

\* intersecter.upstream(f, n)
Upstream ==
    \E f \in QueryFeatures(MaxQuery, Strands), n \in 1..MaxN :
        Query("upstream", f, n, upstream(intervals, max_len, f, n))

\* intersecter.downstream(f, n)
Downstream ==
    \E f \in QueryFeatures(MaxQuery, Strands), n \in 1..MaxN :
        Query("downstream", f, n, downstream(intervals, max_len, f, n))

\* intersecter.knearest(f, k=k)
Knearest ==
    \E f \in QueryFeatures(MaxQuery, {0}), k \in 1..MaxN :
        Query("knearest", f, k, knearest(intervals, max_len, f, k))

\* distance(a, b), a function of the module: it reads no index.
Distance ==
    \E a \in QueryFeatures(MaxQuery, {0}), b \in QueryFeatures(MaxQuery, {0}) :
        /\ dist' = distance(a, b)
        /\ call' = Call("distance", a, b, 0)
        /\ UNCHANGED <<intervals, max_len, built, result, err, nrec>>

Next == Find \/ Left \/ Right \/ Upstream \/ Downstream \/ Knearest

Spec == Init /\ [][Next]_vars

\* One query family at a time, over every index.
NextFind == Find
SpecFind == Init /\ [][NextFind]_vars

NextLeft == Left
SpecLeft == Init /\ [][NextLeft]_vars

\* left over the indexes of a single partition, the default one (no feature
\* has a chrom): the recursive calls of left stay in the partition.
InitDefault == Built(MaxDefaultFeat, {NoneKey})
NextLeftDefault == LeftDefault
SpecLeftDefault == InitDefault /\ [][NextLeftDefault]_vars

NextRight == Right
SpecRight == Init /\ [][NextRight]_vars

NextKnearest == Knearest
SpecKnearest == Init /\ [][NextKnearest]_vars

\* distance alone: no Intersecter is constructed.
InitDistance ==
    /\ intervals = << >>
    /\ max_len = 1
    /\ built = FALSE
    /\ err = "none"
    /\ call = Call("none", NoFeature, NoFeature, 0)
    /\ result = << >>
    /\ nrec = 0
    /\ dist = 0

NextDistance == Distance
SpecDistance == InitDistance /\ [][NextDistance]_vars

\* ---- Properties -------------------------------------------------------

\* The partition the last call was made on, and the feature it was made for.
Partition == Lookup(intervals, call.f.chrom)
Elems(lst) == {lst[i] : i \in 1..Len(lst)}
Count(lst, g) == Cardinality({i \in 1..Len(lst) : lst[i] = g})
SameBag(l1, l2) == \A g \in Elems(l1) \cup Elems(l2) : Count(l1, g) = Count(l2, g)
Dist(g) == distance(call.f, g)
NonDecreasing(lst) ==
    \A i \in 1..Len(lst), j \in 1..Len(lst) : i < j => Dist(lst[i]) <= Dist(lst[j])

\* The stored features of the partition strictly left / right of call.f.
LeftOf == SelectSeq(Partition, LAMBDA g : g.end < call.f.start)
RightOf == SelectSeq(Partition, LAMBDA g : g.start > call.f.end)

\* The k-th smallest distance among the features of lst (k <= Len(lst)).
KthDist(lst, k) ==
    CHOOSE d \in {Dist(g) : g \in Elems(lst)} :
        /\ Cardinality({i \in 1..Len(lst) : Dist(lst[i]) < d}) < k
        /\ Cardinality({i \in 1..Len(lst) : Dist(lst[i]) <= d}) >= k

\* The k nearest features of lst, with every feature tied with the k-th.
Nearest(lst, k) ==
    IF Len(lst) <= k THEN lst
    ELSE SelectSeq(lst, LAMBDA g : Dist(g) <= KthDist(lst, k))

\* C1: find(start, end, key) returns exactly the stored features of
\* partition key that overlap or touch the closed range [start, end], each
\* once and in the order of the partition's start-sorted sequence.
C1_FindReturnsExactlyTheOverlaps ==
    call.op = "find" =>
        /\ err = "none"
        /\ result = SelectSeq(Partition,
                              LAMBDA g : g.start <= call.f.end /\ g.end >= call.f.start)

\* C1, its case: find returned a feature that starts before the query and
\* is shorter than max_len, the longest feature being in another partition.
C1_Witness ==
    /\ call.op = "find"
    /\ \E g \in Elems(result) : g.start < call.f.start
    /\ \A g \in Elems(Partition) : g.end - g.start < max_len

\* C2: every feature left(f, n) returns is a stored feature of f's own
\* partition and ends strictly before f.start.
C2_LeftResultsAreLeftInOwnPartition ==
    call.op = "left" =>
        \A g \in Elems(result) : g \in Elems(Partition) /\ g.end < call.f.start

\* C3: left(f, n) returns the nearest features strictly left of f: no
\* stored left feature is missing while strictly closer than a returned
\* one, and fewer than n results means every left feature was returned.
C3_LeftReturnsTheNearest ==
    (call.op = "left" /\ err = "none") =>
        /\ \A g \in Elems(LeftOf) \ Elems(result) :
               \A r \in Elems(result) : Dist(g) >= Dist(r)
        /\ Len(result) < call.n => Elems(LeftOf) \subseteq Elems(result)

\* C4: when left(f, n) returns m > n results, results n..m-1 are at the
\* distance of result n-1, and every stored left feature at that distance
\* is returned.
C4_LeftTieInclusion ==
    (call.op = "left" /\ err = "none" /\ Len(result) > call.n) =>
        /\ \A i \in (call.n + 1)..Len(result) : Dist(result[i]) = Dist(result[call.n])
        /\ \A g \in Elems(LeftOf) :
               Dist(g) = Dist(result[call.n]) => g \in Elems(result)

\* C5: right(f, n) returns, in non-decreasing distance, the n nearest
\* stored features right of f with exactly those tied with the n-th.
C5_RightReturnsNearestWithTies ==
    call.op = "right" =>
        /\ err = "none"
        /\ NonDecreasing(result)
        /\ SameBag(result, Nearest(RightOf, call.n))

\* C6: knearest(query, k) completes and returns, sorted by distance, the k
\* nearest stored features of the partition with every feature tied with
\* the k-th.
C6_KnearestReturnsNearest ==
    call.op = "knearest" =>
        /\ err = "none"
        /\ NonDecreasing(result)
        /\ SameBag(result, Nearest(Partition, call.n))

\* C7: an Intersecter of an empty collection is constructed, and its
\* queries return the empty list.
C7_EmptyCollectionIsAccepted ==
    (\A c \in DOMAIN intervals : intervals[c] = << >>) =>
        /\ built
        /\ err = "none"
        /\ result = << >>

\* C8: distance is symmetric and non-negative, is 0 exactly when the closed
\* ranges overlap or touch, and is otherwise the gap between the closer
\* edges.
C8_DistanceIsTheGap ==
    call.op = "distance" =>
        LET a == call.f
            b == call.g
            touch == a.start <= b.end /\ b.start <= a.end
        IN /\ dist = distance(b, a)
           /\ dist >= 0
           /\ (dist = 0) <=> touch
           /\ ~touch => dist = (IF a.end < b.start THEN b.start - a.end
                                                    ELSE a.start - b.end)

\* C8, its case: b lies strictly left of a, at a positive distance.
C8_Witness ==
    /\ call.op = "distance"
    /\ call.g.end < call.f.start
    /\ dist > 0

\* C9: a query leaves the index as it is (the partition keys, every
\* partition's sequence, max_len), and a query on an absent key returns the
\* empty list.
C9_QueriesAreReadOnly ==
    [][/\ intervals' = intervals
       /\ max_len' = max_len
       /\ call'.f.chrom \notin DOMAIN intervals => result' = << >>]_vars

\* C10: left(f, n) makes at most as many recursive calls as f's partition
\* holds features.
C10_LeftRecursionBoundedByPartition ==
    call.op = "left" => nrec <= Len(Partition)

====
